---- MODULE Spec2Model ----
(***************************************************************************)
(* Model of librpydb's Debug Adapter Protocol transport and message layer  *)
(* (src/protocol.py, src/protocol/base.py, src/utils.py).                  *)
(*                                                                         *)
(* Text is a sequence of symbols.  A symbol is one structural character    *)
(* (":", " ", CR, LF, a digit, a sign, a JSON punctuation mark) or one     *)
(* maximal run of letters (a word such as "Content-Length"): the code      *)
(* never looks inside a run of letters, it only splits at ":", strips      *)
(* white space, tests for a trailing CR LF and converts digits.            *)
(*                                                                         *)
(* The socket is the byte stream of the spec: recv(n) returns between 1    *)
(* and n symbols of text, or the empty text once the stream is closed,     *)
(* and sendall writes its whole argument.  The model follows               *)
(* src/protocol.py; src/protocol/base.py repeats recv_raw, parse_headers   *)
(* and send_text word for word.                                            *)
(*                                                                         *)
(* Python values are tagged tuples: <<"null">> is None, <<"int", n>>,      *)
(* <<"bool", b>>, <<"str", word>>, <<"map", f>> (a dict, f a function      *)
(* from key words to values) and <<"list", s>>.                            *)
(***************************************************************************)
EXTENDS Integers, Sequences, FiniteSets, TLC

\* ------------------------------------------------------------------ bounds
MaxZeroReads == 2      \* zero-length reads observed on a closed stream
MaxCalls == 2          \* calls of recv on one stream
MaxSends == 2          \* send_text calls per sender
MaxChunks == 3         \* body reads counted per call (the count saturates)
MaxSeq == 2            \* sequence numbers the session assigns

\* ------------------------------------------------------------- characters
CR == "\r"
LF == "\n"
CRLF == <<CR, LF>>
Whitespace == {" ", CR, LF, "\t"}
Digits == <<"0", "1", "2", "3", "4", "5", "6", "7", "8", "9">>
DigitSet == {Digits[i] : i \in 1..10}
DigitVal(c) == (CHOOSE i \in 1..10 : Digits[i] = c) - 1

\* ----------------------------------------------------------- Python values
None == <<"null">>
JInt(n) == <<"int", n>>
JBool(b) == <<"bool", b>>
JStr(s) == <<"str", s>>
JMap(f) == <<"map", f>>
JList(s) == <<"list", s>>
EmptyMap == <<>>

\* outcomes of a call
Pending == <<"pending">>
Returned(v) == <<"return", v>>
Raised(exc, where) == <<"raise", exc, where>>
IsReturn(r) == r[1] = "return"
IsRaise(r) == r[1] = "raise"

\* ------------------------------------------------------- str methods used
RECURSIVE LStrip(_)
LStrip(s) ==
    IF s # <<>> /\ Head(s) \in Whitespace THEN LStrip(Tail(s)) ELSE s

RECURSIVE RStrip(_)
RStrip(s) ==
    IF s # <<>> /\ s[Len(s)] \in Whitespace
    THEN RStrip(SubSeq(s, 1, Len(s) - 1)) ELSE s

\* str.strip()
Strip(s) == RStrip(LStrip(s))

\* str.endswith("\r\n")
EndsWithCRLF(s) == Len(s) >= 2 /\ s[Len(s) - 1] = CR /\ s[Len(s)] = LF

\* str.split(":"): the list of the pieces between ALL the colons
RECURSIVE SplitAcc(_, _, _)
SplitAcc(s, cur, acc) ==
    IF s = <<>> THEN Append(acc, cur)
    ELSE IF Head(s) = ":" THEN SplitAcc(Tail(s), <<>>, Append(acc, cur))
    ELSE SplitAcc(Tail(s), Append(cur, Head(s)), acc)

Split(s) == SplitAcc(s, <<>>, <<>>)

\* str(n) for an integer n
RECURSIVE StrNat(_)
StrNat(n) ==
    IF n < 10 THEN <<Digits[n + 1]>>
    ELSE Append(StrNat(n \div 10), Digits[(n % 10) + 1])

Str(n) == IF n < 0 THEN <<"-">> \o StrNat(0 - n) ELSE StrNat(n)

\* int(x): the outcome of the conversion, Returned(<<"int", n>>) or a raise
RECURSIVE NatOf(_, _)
NatOf(s, acc) ==
    IF s = <<>> THEN acc ELSE NatOf(Tail(s), 10 * acc + DigitVal(Head(s)))

AllDigits(s) == s # <<>> /\ \A i \in 1..Len(s) : s[i] \in DigitSet

IntOf(x) ==
    IF x = None THEN Raised("TypeError", "int")
    ELSE LET t == Strip(x[2])
             signed == t # <<>> /\ Head(t) \in {"+", "-"}
             body == IF signed THEN Tail(t) ELSE t
         IN IF ~AllDigits(body) THEN Raised("ValueError", "int")
            ELSE IF signed /\ Head(t) = "-"
                 THEN Returned(JInt(0 - NatOf(body, 0)))
                 ELSE Returned(JInt(NatOf(body, 0)))

\* ------------------------------------------------------------- NoneDict
\* NoneDict.__getitem__: None for a key the dict does not have
NoneDictGet(d, key) == IF key \in DOMAIN d THEN d[key] ELSE None

\* dict.__setitem__
DictPut(d, key, v) ==
    [k \in (DOMAIN d) \cup {key} |-> IF k = key THEN v ELSE d[k]]

\* ------------------------------------------------------------ JSON codec
\* json.dumps with the default separators ", " and ": "
RECURSIVE json_dumps(_)
RECURSIVE DumpItems(_, _)
RECURSIVE DumpList(_)
json_dumps(v) ==
    CASE v[1] = "null" -> <<"null">>
      [] v[1] = "bool" -> IF v[2] THEN <<"true">> ELSE <<"false">>
      [] v[1] = "int" -> Str(v[2])
      [] v[1] = "str" -> <<"\"", v[2], "\"">>
      [] v[1] = "map" -> <<"{">> \o DumpItems(v[2], DOMAIN v[2]) \o <<"}">>
      [] v[1] = "list" -> <<"[">> \o DumpList(v[2]) \o <<"]">>

DumpItems(d, keys) ==
    IF keys = {} THEN <<>>
    ELSE LET k == CHOOSE x \in keys : TRUE
             rest == keys \ {k}
         IN <<"\"", k, "\"", ":", " ">> \o json_dumps(d[k])
            \o (IF rest = {} THEN <<>> ELSE <<",", " ">> \o DumpItems(d, rest))

DumpList(s) ==
    IF s = <<>> THEN <<>>
    ELSE json_dumps(Head(s))
         \o (IF Tail(s) = <<>> THEN <<>> ELSE <<",", " ">> \o DumpList(Tail(s)))

\* the request documents a client puts on the wire
WireRequest(seq, command, arguments) ==
    IF arguments = None
    THEN JMap([k \in {"seq", "type", "command"} |->
              CASE k = "seq" -> JInt(seq)
                [] k = "type" -> JStr("request")
                [] k = "command" -> JStr(command)])
    ELSE JMap([k \in {"seq", "type", "command", "arguments"} |->
              CASE k = "seq" -> JInt(seq)
                [] k = "type" -> JStr("request")
                [] k = "command" -> JStr(command)
                [] k = "arguments" -> arguments])

ArgsEmpty == JMap(EmptyMap)
ArgsThread == JMap([k \in {"threadId"} |-> JInt(1)])
ArgsWithNull ==
    JMap([k \in {"threadId", "name"} |->
         IF k = "threadId" THEN JInt(1) ELSE None])
ArgsNamedCommand == JMap([k \in {"command"} |-> JStr("x")])
ArgsNamedSelf == JMap([k \in {"self"} |-> JInt(1)])

WireArguments ==
    {None, ArgsEmpty, ArgsThread, ArgsWithNull, ArgsNamedCommand, ArgsNamedSelf}

WireDocs ==
    {WireRequest(1, "unsupportedXyz", a) : a \in WireArguments}
    \cup {WireRequest(2, "continue", ArgsThread), JMap(EmptyMap)}

\* ---------------------------------------------------------- parse_headers
\* hl.split(":") of one header line
SplitHeader(hl) == Split(hl)

\* DAPMessage.parse_headers: Returned(dict of name -> value), or ValueError
\* when a line does not unpack into exactly (type, value)
RECURSIVE ParseHeadersAcc(_, _)
ParseHeadersAcc(lines, h) ==
    IF lines = <<>> THEN Returned(h)
    ELSE LET parts == SplitHeader(Head(lines))
         IN IF Len(parts) # 2 THEN Raised("ValueError", "parse_headers")
            ELSE ParseHeadersAcc(Tail(lines),
                     DictPut(h, Strip(parts[1]), JStr(Strip(parts[2]))))

parse_headers(lines) == ParseHeadersAcc(lines, EmptyMap)

ContentLengthName == <<"Content-Length">>

\* ------------------------------------------------------ DAPRequest, recv
\* Python objects: <<"obj", class, attributes>>; an attribute that was never
\* assigned is not in the attributes, and reading it is an AttributeError
Obj(cls, attrs) == <<"obj", cls, attrs>>
HasAttr(o, a) == a \in DOMAIN o[3]
SetAttr(o, a, v) == Obj(o[2], DictPut(o[3], a, v))

\* DAPMessage.remove_nones
remove_nones(d) == [k \in {x \in DOMAIN d : d[x] # None} |-> d[k]]

\* the names a keyword argument of DAPRequest.__init__ must not repeat
RequestInitParams == {"self", "command"}

\* DAPRequest.__init__ (DAPMessage.__init__ is not called: no seq attribute)
DAPRequest(command, kwargs) ==
    Obj("DAPRequest", [command |-> command, kwargs |-> JMap(remove_nones(kwargs))])

\* DAPMessage.set_seq
set_seq(o, seq) == SetAttr(o, "seq", seq)

\* DAPRequest(command=command, **kwargs) followed by set_seq(seq)
NewRequest(command, kwargs, seq) == set_seq(DAPRequest(command, kwargs), seq)

\* DAPMessage.recv after recv_raw gave raw: None stays None, a body becomes
\* a DAPRequest
RecvOf(raw) ==
    IF ~IsReturn(raw) \/ raw[2] = None THEN raw
    ELSE LET body == raw[2][2]
             arguments == NoneDictGet(body, "arguments")
             kwargs == IF arguments = None THEN EmptyMap ELSE arguments[2]
         IN IF (DOMAIN kwargs) \cap RequestInitParams # {}
            THEN Raised("TypeError", "DAPRequest")
            ELSE Returned(NewRequest(NoneDictGet(body, "command"), kwargs,
                                     NoneDictGet(body, "seq")))

\* --------------------------------------------------------------- frames
\* what the peer sends: header lines (without their CR LF) and a body
Frame(lines, body) == [headers |-> lines, body |-> body]

RECURSIVE WireLines(_)
WireLines(lines) ==
    IF lines = <<>> THEN <<>> ELSE Head(lines) \o CRLF \o WireLines(Tail(lines))

WireOf(f) == WireLines(f.headers) \o CRLF \o f.body

RECURSIVE WireAll(_)
WireAll(fs) == IF fs = <<>> THEN <<>> ELSE WireOf(Head(fs)) \o WireAll(Tail(fs))

LengthLine(n) == <<"Content-Length", ":", " ">> \o Str(n)
HostLine == <<"X-Host", ":", " ", "a">>
HostPortLine == <<"X-Host", ":", " ", "a", ":", "b">>
NoColonLine == <<"garbage">>
SpacedLengthLine(n) == <<" ", "Content-Length", " ", ":", " ", " ">> \o Str(n) \o <<" ">>
BadLengthLine == <<"Content-Length", ":", " ", "abc">>
NegLengthLine == <<"Content-Length", ":", " ", "-", "1">>

EmptyDocText == json_dumps(JMap(EmptyMap))
ExampleLen == 13
PaddedBody == EmptyDocText \o [i \in 1..(ExampleLen - Len(EmptyDocText)) |-> " "]

DocFrame(v) == Frame(<<LengthLine(Len(json_dumps(v)))>>, json_dumps(v))

\* frames whose header block has Content-Length = the body's length
GoodFrames ==
    {DocFrame(v) : v \in WireDocs}
    \cup {Frame(<<LengthLine(ExampleLen)>>, PaddedBody),
          Frame(<<HostLine, LengthLine(2)>>, EmptyDocText),
          Frame(<<LengthLine(2), HostPortLine>>, EmptyDocText),
          Frame(<<SpacedLengthLine(2)>>, EmptyDocText),
          Frame(<<LengthLine(9), LengthLine(2)>>, EmptyDocText),
          Frame(<<LengthLine(1)>>, <<"x">>)}

\* frames with a broken header block
BadFrames ==
    {Frame(<<HostLine>>, EmptyDocText),
     Frame(<<>>, EmptyDocText),
     Frame(<<BadLengthLine>>, EmptyDocText),
     Frame(<<NegLengthLine>>, EmptyDocText),
     Frame(<<NoColonLine, LengthLine(2)>>, EmptyDocText),
     Frame(<<LengthLine(0)>>, <<>>)}

FramePairs ==
    {<<DocFrame(WireRequest(2, "continue", ArgsThread)), DocFrame(JMap(EmptyMap))>>,
     <<DocFrame(JMap(EmptyMap)), DocFrame(WireRequest(1, "unsupportedXyz", ArgsEmpty))>>,
     <<Frame(<<LengthLine(ExampleLen)>>, PaddedBody),
       DocFrame(WireRequest(1, "unsupportedXyz", None))>>}

InputStreams == {<<f>> : f \in GoodFrames \cup BadFrames} \cup FramePairs

\* -------------------------------------------------- messages to serialize
\* `body[key] = value`
Put(d, key, v) == DictPut(d, key, v)

\* an optional field written without the None test
PutIfSetAlways(d, key, v) == DictPut(d, key, v)

\* `if value is not None: body[key] = value`
PutIfSet(d, key, v) == IF v # None THEN DictPut(d, key, v) ELSE d

\* the outcome of a method that reads the attributes `reads` of self
Reading(o, reads, value) ==
    IF reads \subseteq DOMAIN o[3] THEN Returned(value)
    ELSE Raised("AttributeError", o[2])

\* values the session passes to the constructors
SomeStr == JStr("s")
OptStr == {None, JStr("s")}
OptInt == {None, JInt(0)}
OptBool == {None, JBool(FALSE)}
Payload == JMap([verified |-> JBool(TRUE), line |-> JInt(10)])
PayloadLists == {JList(<<>>), JList(<<Payload>>), JList(<<Payload, Payload, Payload>>)}

\* DAPEvent.__init__
EventAttrs(event) == [event |-> JStr(event)]

\* DAPResponse.__init__
ResponseAttrs(rqs, command, success, message) ==
    [rqs |-> rqs, command |-> JStr(command), success |-> success,
     message |-> message]

DAPResponse(rqs, command, success, message) ==
    Obj("DAPResponse", ResponseAttrs(rqs, command, success, message))

DAPErrorResponse(rqs, command, message, detailed_message) ==
    Obj("DAPErrorResponse",
        ResponseAttrs(rqs, command, JBool(FALSE), message) @@ [dm |-> detailed_message])

DAPInitializedEvent == Obj("DAPInitializedEvent", EventAttrs("initialized"))

DAPStoppedEvent(reason, description, thread_id, preserve_focus_hint, text, all_threads_stopped) ==
    Obj("DAPStoppedEvent",
        EventAttrs("stopped") @@
        [reason |-> reason, description |-> description, thread_id |-> thread_id,
         preserve_focus_hint |-> preserve_focus_hint, text |-> text,
         all_threads_stopped |-> all_threads_stopped])

DAPContinueEvent(thread_id, all_threads_continue) ==
    Obj("DAPContinueEvent",
        EventAttrs("continued") @@
        [thread_id |-> thread_id, all_threads_continue |-> all_threads_continue])

DAPExitedEvent(ec) == Obj("DAPExitedEvent", EventAttrs("exited") @@ [ec |-> ec])

DAPTerminatedEvent(restart) ==
    Obj("DAPTerminatedEvent", EventAttrs("terminated") @@ [restart |-> restart])

DAPThreadEvent(reason, thread_id) ==
    Obj("DAPThreadEvent",
        EventAttrs("thread") @@ [reason |-> reason, thread_id |-> thread_id])

DAPOutputEvent(output, category, variables_reference, source, line, column, d) ==
    Obj("DAPOutputEvent",
        EventAttrs("output") @@
        [output |-> output, category |-> category,
         variables_reference |-> variables_reference, source |-> source,
         line |-> line, column |-> column, data |-> d])

DAPBreakpointEvent(reason, breakpoint) ==
    Obj("DAPBreakpointEvent",
        EventAttrs("breakpoint") @@ [reason |-> reason, breakpoint |-> breakpoint])

DAPModuleEvent(reason, module) ==
    Obj("DAPModuleEvent",
        EventAttrs("module") @@ [reason |-> reason, module |-> module])

DAPLoadedSourceEvent(reason, source) ==
    Obj("DAPLoadedSourceEvent",
        EventAttrs("loadedSource") @@ [reason |-> reason, source |-> source])

DAPProcessEvent(name, process_id, is_local, start_method) ==
    Obj("DAPProcessEvent",
        EventAttrs("process") @@
        [name |-> name, process_id |-> process_id, is_local |-> is_local,
         start_method |-> start_method])

DAPCapabilitiesEvent(capabilities) ==
    Obj("DAPCapabilitiesEvent",
        EventAttrs("capabilities") @@ [capabilities |-> capabilities])

DAPRunInTerminalResponse(rqs, process_id, shell_process_id) ==
    Obj("DAPRunInTerminalResponse",
        ResponseAttrs(rqs, "runInTerminal", JBool(TRUE), None) @@
        [process_id |-> process_id, shell_process_id |-> shell_process_id])

DAPSetBreakpointsResponse(rqs, breakpoints) ==
    Obj("DAPSetBreakpointsResponse",
        ResponseAttrs(rqs, "setBreakpoints", JBool(TRUE), None) @@
        [breakpoints |-> breakpoints])

DAPSetFunctionBreakpointsResponse(rqs, breakpoints) ==
    Obj("DAPSetFunctionBreakpointsResponse",
        ResponseAttrs(rqs, "setFunctionBreakpoints", JBool(TRUE), None) @@
        [breakpoints |-> breakpoints])

DAPContinueResponse(rqs, all_threads_continue) ==
    Obj("DAPContinueResponse",
        ResponseAttrs(rqs, "continue", JBool(TRUE), None) @@
        [all_threads_continue |-> all_threads_continue])

DAPInitializeResponse(rqs, capabilities) ==
    Obj("DAPInitializeResponse",
        ResponseAttrs(rqs, "initialize", JBool(TRUE), None) @@
        [capabilities |-> capabilities])

DAPStackTraceResponse(rqs, stack_frames) ==
    Obj("DAPStackTraceResponse",
        ResponseAttrs(rqs, "stackTrace", JBool(TRUE), None) @@
        [stack_frames |-> stack_frames])

DAPScopesResponse(rqs, scopes) ==
    Obj("DAPScopesResponse",
        ResponseAttrs(rqs, "scopes", JBool(TRUE), None) @@ [scopes |-> scopes])

DAPVariablesResponse(rqs, variables) ==
    Obj("DAPVariablesResponse",
        ResponseAttrs(rqs, "variables", JBool(TRUE), None) @@
        [variables |-> variables])

DAPSetVariableResponse(rqs, value, type, variables_reference, named_variables, indexed_variables) ==
    Obj("DAPSetVariableResponse",
        ResponseAttrs(rqs, "setVariable", JBool(TRUE), None) @@
        [value |-> value, type |-> type,
         variables_reference |-> variables_reference,
         named_variables |-> named_variables,
         indexed_variables |-> indexed_variables])

DAPSourceResponse(rqs, source, mime_type) ==
    Obj("DAPSourceResponse",
        ResponseAttrs(rqs, "source", JBool(TRUE), None) @@
        [source |-> source, mime_type |-> mime_type])

DAPThreadsResponse(rqs, threads) ==
    Obj("DAPThreadsResponse",
        ResponseAttrs(rqs, "threads", JBool(TRUE), None) @@ [threads |-> threads])

\* DAPEvaluateResponse.__init__ stores result, not value
DAPEvaluateResponse(rqs, res, type, presentation_hint, variables_reference, named_variables, indexed_variables) ==
    Obj("DAPEvaluateResponse",
        ResponseAttrs(rqs, "evaluate", JBool(TRUE), None) @@
        [result |-> res, type |-> type, presentation_hint |-> presentation_hint,
         variables_reference |-> variables_reference,
         named_variables |-> named_variables,
         indexed_variables |-> indexed_variables])

\* ------------------------------------- serialize_event_context, per class
DAPInitializedEvent_serialize_event_context(o, message) == Returned(message)

DAPStoppedEvent_serialize_event_context(o, message) ==
    LET a == o[3]
        body == PutIfSet(PutIfSet(PutIfSet(PutIfSet(PutIfSet(Put(EmptyMap, "reason", a.reason),
                "description", a.description),
                "threadId", a.thread_id),
                "preserveFocusHint", a.preserve_focus_hint),
                "text", a.text),
                "allThreadsStopped", a.all_threads_stopped)
    IN Returned(Put(message, "body", JMap(body)))

DAPContinueEvent_serialize_event_context(o, message) ==
    LET a == o[3]
        body == PutIfSet(Put(EmptyMap, "threadId", a.thread_id),
                "allThreadsContinued", a.all_threads_continue)
    IN Returned(Put(message, "body", JMap(body)))

DAPExitedEvent_serialize_event_context(o, message) ==
    LET a == o[3]
        body == Put(EmptyMap, "exitCode", a.ec)
    IN Returned(Put(message, "body", JMap(body)))

DAPTerminatedEvent_serialize_event_context(o, message) ==
    LET a == o[3]
    IN IF a.restart # None
       THEN Returned(Put(message, "body", JMap(Put(EmptyMap, "restart", a.restart))))
       ELSE Returned(message)

DAPThreadEvent_serialize_event_context(o, message) ==
    LET a == o[3]
        body == Put(Put(EmptyMap, "reason", a.reason), "threadId", a.thread_id)
    IN Returned(Put(message, "body", JMap(body)))

DAPOutputEvent_serialize_event_context(o, message) ==
    LET a == o[3]
        b1 == PutIfSet(EmptyMap, "category", a.category)
        b2 == Put(b1, "output", a.output)
        body == PutIfSet(PutIfSet(PutIfSet(PutIfSet(PutIfSet(b2,
                "variablesReference", a.variables_reference),
                "source", a.source),
                "line", a.line),
                "column", a.column),
                "data", a.data)
    IN Returned(Put(message, "body", JMap(body)))

DAPBreakpointEvent_serialize_event_context(o, message) ==
    LET a == o[3]
        body == Put(Put(EmptyMap, "reason", a.reason), "breakpoint", a.breakpoint)
    IN Returned(Put(message, "body", JMap(body)))

DAPModuleEvent_serialize_event_context(o, message) ==
    LET a == o[3]
        body == Put(Put(EmptyMap, "reason", a.reason), "module", a.module)
    IN Returned(Put(message, "body", JMap(body)))

DAPLoadedSourceEvent_serialize_event_context(o, message) ==
    LET a == o[3]
        body == Put(Put(EmptyMap, "reason", a.reason), "source", a.source)
    IN Returned(Put(message, "body", JMap(body)))

DAPProcessEvent_serialize_event_context(o, message) ==
    LET a == o[3]
        body == PutIfSet(PutIfSet(PutIfSet(Put(EmptyMap, "name", a.name),
                "systemProcessId", a.process_id),
                "isLocalProcess", a.is_local),
                "startMethod", a.start_method)
    IN Returned(Put(message, "body", JMap(body)))

DAPCapabilitiesEvent_serialize_event_context(o, message) ==
    LET a == o[3]
        body == Put(EmptyMap, "capabilities", a.capabilities)
    IN Returned(Put(message, "body", JMap(body)))

serialize_event_context(o, message) ==
    CASE o[2] = "DAPInitializedEvent" -> DAPInitializedEvent_serialize_event_context(o, message)
      [] o[2] = "DAPStoppedEvent" -> DAPStoppedEvent_serialize_event_context(o, message)
      [] o[2] = "DAPContinueEvent" -> DAPContinueEvent_serialize_event_context(o, message)
      [] o[2] = "DAPExitedEvent" -> DAPExitedEvent_serialize_event_context(o, message)
      [] o[2] = "DAPTerminatedEvent" -> DAPTerminatedEvent_serialize_event_context(o, message)
      [] o[2] = "DAPThreadEvent" -> DAPThreadEvent_serialize_event_context(o, message)
      [] o[2] = "DAPOutputEvent" -> DAPOutputEvent_serialize_event_context(o, message)
      [] o[2] = "DAPBreakpointEvent" -> DAPBreakpointEvent_serialize_event_context(o, message)
      [] o[2] = "DAPModuleEvent" -> DAPModuleEvent_serialize_event_context(o, message)
      [] o[2] = "DAPLoadedSourceEvent" -> DAPLoadedSourceEvent_serialize_event_context(o, message)
      [] o[2] = "DAPProcessEvent" -> DAPProcessEvent_serialize_event_context(o, message)
      [] o[2] = "DAPCapabilitiesEvent" -> DAPCapabilitiesEvent_serialize_event_context(o, message)

\* ---------------------------------- serialize_response_context, per class
DAPResponse_serialize_response_context(o, message) == Returned(message)

DAPErrorResponse_serialize_response_context(o, message) ==
    LET a == o[3]
        body == PutIfSet(EmptyMap, "error", a.dm)
    IN Returned(Put(message, "body", JMap(body)))

DAPRunInTerminalResponse_serialize_response_context(o, message) ==
    LET a == o[3]
        body == PutIfSet(PutIfSet(EmptyMap,
                "processId", a.process_id),
                "shellProcessId", a.shell_process_id)
    IN Returned(Put(message, "body", JMap(body)))

DAPSetBreakpointsResponse_serialize_response_context(o, message) ==
    LET a == o[3]
        body == Put(EmptyMap, "breakpoints", a.breakpoints)
    IN Returned(Put(message, "body", JMap(body)))

DAPSetFunctionBreakpointsResponse_serialize_response_context(o, message) ==
    LET a == o[3]
        body == Put(EmptyMap, "breakpoints", a.breakpoints)
    IN Returned(Put(message, "body", JMap(body)))

DAPContinueResponse_serialize_response_context(o, message) ==
    LET a == o[3]
        body == PutIfSet(EmptyMap,
                "allThreadsContinued", a.all_threads_continue)
    IN Returned(Put(message, "body", JMap(body)))

DAPInitializeResponse_serialize_response_context(o, message) ==
    Returned(Put(message, "body", o[3].capabilities))

DAPStackTraceResponse_serialize_response_context(o, message) ==
    LET a == o[3]
        body == Put(Put(EmptyMap, "stackFrames", a.stack_frames),
                    "totalFrames", JInt(Len(a.stack_frames[2])))
    IN Returned(Put(message, "body", JMap(body)))

DAPScopesResponse_serialize_response_context(o, message) ==
    LET a == o[3]
        body == Put(EmptyMap, "scopes", a.scopes)
    IN Returned(Put(message, "body", JMap(body)))

DAPVariablesResponse_serialize_response_context(o, message) ==
    LET a == o[3]
        body == Put(EmptyMap, "variables", a.variables)
    IN Returned(Put(message, "body", JMap(body)))

DAPSetVariableResponse_serialize_response_context(o, message) ==
    LET a == o[3]
        body == PutIfSet(PutIfSet(PutIfSet(PutIfSet(Put(EmptyMap, "value", a.value),
                "type", a.type),
                "variablesReference", a.variables_reference),
                "namedVariables", a.named_variables),
                "indexedVariables", a.indexed_variables)
    IN Returned(Put(message, "body", JMap(body)))

DAPSourceResponse_serialize_response_context(o, message) ==
    LET a == o[3]
        body == PutIfSet(Put(EmptyMap, "source", a.source),
                "mimeType", a.mime_type)
    IN Returned(Put(message, "body", JMap(body)))

DAPThreadsResponse_serialize_response_context(o, message) ==
    LET a == o[3]
        body == Put(EmptyMap, "threads", a.threads)
    IN Returned(Put(message, "body", JMap(body)))

\* reads self.value, which the constructor never assigns
DAPEvaluateResponse_serialize_response_context(o, message) ==
    LET a == o[3]
        body == PutIfSet(PutIfSet(PutIfSet(PutIfSet(PutIfSet(
                Put(EmptyMap, "value", a.value),
                "type", a.type),
                "presentationHint", a.presentation_hint),
                "variablesReference", a.variables_reference),
                "namedVariables", a.named_variables),
                "indexedVariables", a.indexed_variables)
    IN Reading(o, {"value"}, Put(message, "body", JMap(body)))

serialize_response_context(o, message) ==
    CASE o[2] = "DAPResponse" -> DAPResponse_serialize_response_context(o, message)
      [] o[2] = "DAPErrorResponse" -> DAPErrorResponse_serialize_response_context(o, message)
      [] o[2] = "DAPRunInTerminalResponse" -> DAPRunInTerminalResponse_serialize_response_context(o, message)
      [] o[2] = "DAPSetBreakpointsResponse" -> DAPSetBreakpointsResponse_serialize_response_context(o, message)
      [] o[2] = "DAPSetFunctionBreakpointsResponse" -> DAPSetFunctionBreakpointsResponse_serialize_response_context(o, message)
      [] o[2] = "DAPContinueResponse" -> DAPContinueResponse_serialize_response_context(o, message)
      [] o[2] = "DAPInitializeResponse" -> DAPInitializeResponse_serialize_response_context(o, message)
      [] o[2] = "DAPStackTraceResponse" -> DAPStackTraceResponse_serialize_response_context(o, message)
      [] o[2] = "DAPScopesResponse" -> DAPScopesResponse_serialize_response_context(o, message)
      [] o[2] = "DAPVariablesResponse" -> DAPVariablesResponse_serialize_response_context(o, message)
      [] o[2] = "DAPSetVariableResponse" -> DAPSetVariableResponse_serialize_response_context(o, message)
      [] o[2] = "DAPSourceResponse" -> DAPSourceResponse_serialize_response_context(o, message)
      [] o[2] = "DAPThreadsResponse" -> DAPThreadsResponse_serialize_response_context(o, message)
      [] o[2] = "DAPEvaluateResponse" -> DAPEvaluateResponse_serialize_response_context(o, message)

\* ------------------------------------------------------------- serialize
EventClasses ==
    {"DAPInitializedEvent", "DAPStoppedEvent", "DAPContinueEvent",
     "DAPExitedEvent", "DAPTerminatedEvent", "DAPThreadEvent", "DAPOutputEvent",
     "DAPBreakpointEvent", "DAPModuleEvent", "DAPLoadedSourceEvent",
     "DAPProcessEvent", "DAPCapabilitiesEvent"}

ResponseClasses ==
    {"DAPResponse", "DAPErrorResponse", "DAPRunInTerminalResponse",
     "DAPSetBreakpointsResponse", "DAPSetFunctionBreakpointsResponse",
     "DAPContinueResponse", "DAPInitializeResponse", "DAPStackTraceResponse",
     "DAPScopesResponse", "DAPVariablesResponse", "DAPSetVariableResponse",
     "DAPSourceResponse", "DAPThreadsResponse", "DAPEvaluateResponse"}

\* get_type of DAPRequest, DAPEvent, DAPResponse
get_type(o) ==
    IF o[2] \in EventClasses THEN "event"
    ELSE IF o[2] \in ResponseClasses THEN "response"
    ELSE "type"

DAPRequest_serialize_context(o, message) ==
    Returned(Put(Put(message, "command", o[3].command), "args", o[3].kwargs))

DAPEvent_serialize_context(o, message) ==
    serialize_event_context(o, Put(message, "event", o[3].event))

\* `message["success"] = self.message` when a message is set
ResponseMessageKey == "success"

DAPResponse_serialize_context(o, message) ==
    LET a == o[3]
        m1 == Put(Put(Put(message, "request_seq", a.rqs), "command", a.command),
                  "success", a.success)
        m2 == IF a.message # None THEN Put(m1, ResponseMessageKey, a.message)
              ELSE m1
    IN serialize_response_context(o, m2)

serialize_context(o, message) ==
    IF o[2] \in EventClasses THEN DAPEvent_serialize_context(o, message)
    ELSE IF o[2] \in ResponseClasses THEN DAPResponse_serialize_context(o, message)
    ELSE DAPRequest_serialize_context(o, message)

\* DAPMessage.serialize up to json.dumps: the message dict, or the raise
serialize_message(o, seq) ==
    serialize_context(o, Put(Put(EmptyMap, "seq", seq), "type", JStr(get_type(o))))

\* DAPMessage.serialize
serialize(o, seq) ==
    LET m == serialize_message(o, seq)
    IN IF IsRaise(m) THEN m ELSE Returned(json_dumps(JMap(m[2])))

\* send_text without the blank line that ends the header block
send_text_no_blank(text) == <<LengthLine(Len(text)) \o CRLF, <<>>, text>>

\* DAPMessage.send_text: the three sendall calls
send_text(text) == <<LengthLine(Len(text)) \o CRLF, CRLF, text>>

\* DAPMessage.send: the outcome of serialize(self.seq), the read of self.seq
\* failing when set_seq was never called
send(o) ==
    IF ~HasAttr(o, "seq") THEN Raised("AttributeError", "seq")
    ELSE serialize(o, o[3].seq)

\* ------------------------------------------------ what the session builds
RequestInstances ==
    {DAPRequest(JStr("unsupportedXyz"), kw[2]) : kw \in {ArgsEmpty, ArgsThread, ArgsWithNull}}

EventInstances ==
    {DAPInitializedEvent}
    \cup {DAPStoppedEvent(JStr("breakpoint"), d, t, p, x, s) :
            d \in OptStr, t \in {None, JInt(1)}, p \in OptBool, x \in OptStr, s \in OptBool}
    \cup {DAPContinueEvent(JInt(1), c) : c \in OptBool}
    \cup {DAPExitedEvent(JInt(0))}
    \cup {DAPTerminatedEvent(r) : r \in OptBool}
    \cup {DAPThreadEvent(SomeStr, JInt(1))}
    \cup {DAPOutputEvent(SomeStr, c, v, src, l, col, d) :
            c \in OptStr, v \in OptInt, src \in {None, Payload}, l \in OptInt,
            col \in OptInt, d \in {None, Payload}}
    \cup {DAPBreakpointEvent(SomeStr, Payload), DAPModuleEvent(SomeStr, Payload),
          DAPLoadedSourceEvent(SomeStr, Payload), DAPCapabilitiesEvent(Payload)}
    \cup {DAPProcessEvent(SomeStr, p, l, m) : p \in OptInt, l \in OptBool, m \in OptStr}

ResponseInstances ==
    {DAPResponse(JInt(1), "next", su, m) : su \in {JBool(TRUE), JBool(FALSE)}, m \in OptStr}
    \cup {DAPErrorResponse(JInt(1), "next", m, dm) :
            m \in {JStr(""), JStr("s")}, dm \in {None, Payload}}
    \cup {DAPRunInTerminalResponse(JInt(1), p, sp) : p \in OptInt, sp \in OptInt}
    \cup {DAPSetBreakpointsResponse(JInt(1), b) : b \in PayloadLists}
    \cup {DAPSetFunctionBreakpointsResponse(JInt(1), b) : b \in PayloadLists}
    \cup {DAPContinueResponse(JInt(1), c) : c \in OptBool}
    \cup {DAPInitializeResponse(JInt(1), Payload)}
    \cup {DAPStackTraceResponse(JInt(1), f) : f \in PayloadLists}
    \cup {DAPScopesResponse(JInt(1), f) : f \in PayloadLists}
    \cup {DAPVariablesResponse(JInt(1), f) : f \in PayloadLists}
    \cup {DAPSetVariableResponse(JInt(1), SomeStr, t, v, n, i) :
            t \in OptStr, v \in OptInt, n \in OptInt, i \in OptInt}
    \cup {DAPSourceResponse(JInt(1), SomeStr, m) : m \in OptStr}
    \cup {DAPThreadsResponse(JInt(1), f) : f \in PayloadLists}
    \cup {DAPEvaluateResponse(JInt(1), SomeStr, t, p, v, n, i) :
            t \in OptStr, p \in {None, Payload}, v \in OptInt, n \in OptInt, i \in OptInt}

Instances == RequestInstances \cup EventInstances \cup ResponseInstances

\* the documents the session puts on the wire when it sends a Request
SentRequestDocs ==
    {JMap(serialize_message(o, JInt(n))[2]) : o \in RequestInstances, n \in 1..MaxSeq}

\* json.loads(data, object_hook=NoneDict): the document whose text is data
\* (white space around it is ignored), ValueError when data is no document
JsonDocs == WireDocs \cup SentRequestDocs

json_loads(data) ==
    LET t == Strip(data)
    IN IF \E v \in JsonDocs : json_dumps(v) = t
       THEN Returned(CHOOSE v \in JsonDocs : json_dumps(v) = t)
       ELSE Raised("ValueError", "json")

\* ---------------------------------------------------------------- state
VARIABLES
    frames,         \* reader: the frames the peer sends on the socket
    avail,          \* reader: symbols delivered before the stream closes
    pos,            \* reader: symbols consumed from the socket so far
    pc,             \* reader: "header" loop, "body" loop or "done"
    cread_line,     \* recv_raw: line being accumulated
    headers,        \* recv_raw: header lines read so far
    hmap,           \* recv_raw: outcome of parse_headers, Pending before
    content_size,   \* recv_raw: outcome of int(headers["Content-Length"])
    data,           \* recv_raw: body accumulated so far
    raw,            \* outcome of recv_raw
    result,         \* outcome of recv
    zreads,         \* zero-length reads the socket has returned
    ncalls,         \* calls of recv started on this socket
    chunks,         \* non-empty body reads of this call, up to MaxChunks
    sobj,           \* session: the message object built, None before
    spc,            \* session: "none", "built", "serialized" or "sent"
    smsg,           \* serialize: outcome holding the message dict
    sout,           \* serialize/send: outcome holding the JSON text
    sock,           \* what has been written to the socket
    wpc,            \* per sender: sendall calls of send_text already made
    wtext,          \* per sender: text of the frame being sent
    wsent,          \* per sender: send_text calls completed
    overlap         \* a send_text call started while another was under way

rvars == <<frames, avail, pos, pc, cread_line, headers, hmap, content_size,
           data, raw, result, zreads, ncalls, chunks>>

svars == <<sobj, spc, smsg, sout>>

wvars == <<wpc, wtext, wsent, overlap>>

vars == <<rvars, svars, sock, wvars>>

Stream == WireAll(frames)

Min(a, b) == IF a < b THEN a ELSE b

\* ------------------------------------------------------------- recv_raw
\* the header loop without its end-of-stream test
HeaderEndOfStreamNever(c) == FALSE

\* `if c == ""` of the header loop
HeaderEndOfStream(c) == c = <<>>

\* `if data == ""` of the body loop
BodyEndOfStream(d) == d = <<>>

\* the body loop keeping only the last chunk
AccumulateLast(d, chunk) == chunk

\* `data += socket.recv(...)`
Accumulate(d, chunk) == d \o chunk

\* the body loop asking for the whole length at every read
BodyRequestWhole(size, d) == size

\* the size asked of socket.recv in the body loop
BodyRequest(size, d) == size - Len(d)

\* recv_raw between the end of the header loop and the first body read:
\* parse_headers, int(headers["Content-Length"]), data = "", loop test
AfterHeaders(lines) ==
    LET ph == parse_headers(lines)
    IN IF IsRaise(ph)
       THEN [hmap |-> ph, size |-> Pending, raw |-> ph, pc |-> "done"]
       ELSE LET ci == IntOf(NoneDictGet(ph[2], ContentLengthName))
            IN IF IsRaise(ci)
               THEN [hmap |-> ph, size |-> ci, raw |-> ci, pc |-> "done"]
               ELSE IF 0 < ci[2][2]
                    THEN [hmap |-> ph, size |-> ci, raw |-> Pending, pc |-> "body"]
                    ELSE [hmap |-> ph, size |-> ci, raw |-> json_loads(<<>>),
                          pc |-> "done"]

\* the locals of recv_raw on entry
RecvEntry ==
    /\ pc = "header"
    /\ cread_line = <<>>
    /\ headers = <<>>
    /\ hmap = Pending
    /\ content_size = Pending
    /\ data = <<>>
    /\ raw = Pending
    /\ result = Pending
    /\ chunks = 0

Senders == {1, 2}

\* nothing was built or written yet
WriterIdle ==
    /\ sobj = None
    /\ spc = "none"
    /\ smsg = Pending
    /\ sout = Pending
    /\ sock = <<>>
    /\ wpc = [s \in Senders |-> 0]
    /\ wtext = [s \in Senders |-> <<>>]
    /\ wsent = [s \in Senders |-> 0]
    /\ overlap = FALSE

\* nothing is read
ReaderIdle ==
    /\ frames = <<>>
    /\ avail = 0
    /\ pos = 0
    /\ zreads = 0
    /\ ncalls = 0
    /\ RecvEntry

RecvInit ==
    /\ frames \in InputStreams
    /\ avail \in 0..Len(WireAll(frames))
    /\ pos = 0
    /\ zreads = 0
    /\ ncalls = 1
    /\ RecvEntry
    /\ WriterIdle

\* one iteration of the header loop: socket.recv(1) and what follows it up
\* to the next socket.recv
HeaderRecv ==
    /\ pc = "header"
    /\ LET c == IF pos < avail THEN <<Stream[pos + 1]>> ELSE <<>>
           line == cread_line \o c
       IN /\ c = <<>> => zreads < MaxZeroReads
          /\ zreads' = IF c = <<>> THEN zreads + 1 ELSE zreads
          /\ pos' = pos + Len(c)
          /\ IF HeaderEndOfStream(c)
             THEN /\ pc' = "done"
                  /\ raw' = Returned(None)
                  /\ result' = RecvOf(Returned(None))
                  /\ UNCHANGED <<cread_line, headers, hmap, content_size, data>>
             ELSE IF EndsWithCRLF(line)
             THEN IF line = CRLF
                  THEN LET a == AfterHeaders(headers)
                       IN /\ hmap' = a.hmap
                          /\ content_size' = a.size
                          /\ raw' = a.raw
                          /\ pc' = a.pc
                          /\ result' = IF a.pc = "done" THEN RecvOf(a.raw) ELSE result
                          /\ cread_line' = line
                          /\ data' = <<>>
                          /\ UNCHANGED headers
                  ELSE /\ headers' = Append(headers, line)
                       /\ cread_line' = <<>>
                       /\ UNCHANGED <<pc, hmap, content_size, data, raw, result>>
             ELSE /\ cread_line' = line
                  /\ UNCHANGED <<pc, headers, hmap, content_size, data, raw, result>>
    /\ UNCHANGED <<frames, avail, ncalls, chunks, svars, sock, wvars>>

\* one iteration of the body loop: socket.recv(content_size - len(data))
\* returns between 1 and that many symbols, or none on a closed stream
BodyRecv ==
    /\ pc = "body"
    /\ LET size == content_size[2][2]
           want == BodyRequest(size, data)
       IN \E k \in 0..Min(want, avail - pos) :
            /\ (k = 0) = (pos = avail)
            /\ k = 0 => zreads < MaxZeroReads
            /\ zreads' = IF k = 0 THEN zreads + 1 ELSE zreads
            /\ pos' = pos + k
            /\ chunks' = IF k = 0 THEN chunks ELSE Min(chunks + 1, MaxChunks)
            /\ LET d == Accumulate(data, SubSeq(Stream, pos + 1, pos + k))
               IN /\ data' = d
                  /\ IF BodyEndOfStream(d)
                     THEN /\ pc' = "done"
                          /\ raw' = Returned(None)
                          /\ result' = RecvOf(Returned(None))
                     ELSE IF Len(d) < size
                     THEN UNCHANGED <<pc, raw, result>>
                     ELSE /\ pc' = "done"
                          /\ raw' = json_loads(d)
                          /\ result' = RecvOf(json_loads(d))
    /\ UNCHANGED <<frames, avail, cread_line, headers, hmap, content_size, ncalls,
                   svars, sock, wvars>>

\* the session calls recv again after it got a request
RecvAgain ==
    /\ pc = "done"
    /\ IsReturn(result) /\ result[2] # None
    /\ ncalls < MaxCalls
    /\ ncalls' = ncalls + 1
    /\ pc' = "header"
    /\ cread_line' = <<>>
    /\ headers' = <<>>
    /\ hmap' = Pending
    /\ content_size' = Pending
    /\ data' = <<>>
    /\ raw' = Pending
    /\ result' = Pending
    /\ chunks' = 0
    /\ UNCHANGED <<frames, avail, pos, zreads, svars, sock, wvars>>

RecvNext == HeaderRecv \/ BodyRecv \/ RecvAgain

SpecRecv == RecvInit /\ [][RecvNext]_vars

\* ------------------------------------------------ the session's writes
Flatten3(w) == w[1] \o w[2] \o w[3]

SerInit == ReaderIdle /\ WriterIdle

\* the session constructs a Request, Response or Event
Construct ==
    /\ spc = "none"
    /\ sobj' \in Instances
    /\ spc' = "built"
    /\ UNCHANGED <<rvars, smsg, sout, sock, wvars>>

\* obj.set_seq(n)
SetSeq ==
    /\ spc = "built"
    /\ ~HasAttr(sobj, "seq")
    /\ \E n \in 1..MaxSeq : sobj' = set_seq(sobj, JInt(n))
    /\ UNCHANGED <<rvars, spc, smsg, sout, sock, wvars>>

\* obj.serialize(n)
Serialize ==
    /\ spc = "built"
    /\ \E n \in 1..MaxSeq :
         /\ smsg' = serialize_message(sobj, JInt(n))
         /\ sout' = serialize(sobj, JInt(n))
    /\ spc' = "serialized"
    /\ UNCHANGED <<rvars, sobj, sock, wvars>>

\* obj.send(socket), the only writer of the socket
Send ==
    /\ spc = "built"
    /\ sout' = send(sobj)
    /\ smsg' = IF HasAttr(sobj, "seq") THEN serialize_message(sobj, sobj[3].seq)
               ELSE send(sobj)
    /\ sock' = IF IsReturn(send(sobj)) THEN sock \o Flatten3(send_text(send(sobj)[2]))
               ELSE sock
    /\ spc' = "sent"
    /\ UNCHANGED <<rvars, sobj, wvars>>

SerNext == Construct \/ SetSeq \/ Serialize \/ Send

SpecSer == SerInit /\ [][SerNext]_vars

\* ------------------------------------------- senders sharing one socket
SendTexts ==
    {serialize(DAPInitializedEvent, JInt(1))[2],
     serialize(DAPExitedEvent(JInt(0)), JInt(2))[2]}

SendInit == ReaderIdle /\ WriterIdle

Busy(s) == wpc[s] > 0

\* the next sendall of sender s; the first one starts a send_text call
SendAll(s) ==
    /\ wpc[s] > 0 \/ wsent[s] < MaxSends
    /\ \E t \in (IF wpc[s] = 0 THEN SendTexts ELSE {wtext[s]}) :
         /\ wtext' = [wtext EXCEPT ![s] = t]
         /\ sock' = sock \o send_text(t)[wpc[s] + 1]
    /\ overlap' = (overlap \/ (wpc[s] = 0 /\ \E o \in Senders \ {s} : Busy(o)))
    /\ wpc' = [wpc EXCEPT ![s] = IF wpc[s] = 2 THEN 0 ELSE wpc[s] + 1]
    /\ wsent' = [wsent EXCEPT ![s] = IF wpc[s] = 2 THEN wsent[s] + 1 ELSE wsent[s]]
    /\ UNCHANGED <<rvars, svars>>

SendNext == \E s \in Senders : SendAll(s)

SpecSend == SendInit /\ [][SendNext]_vars

\* --------------------------------- a Request sent and read back (loopback)
\* the frames whose wire text is w: one header line, CR LF, CR LF, the body
FramesOn(w) ==
    {f \in {Frame(<<SubSeq(w, 1, i)>>, SubSeq(w, i + 5, Len(w))) : i \in 0..(Len(w) - 4)} :
        WireOf(f) = w}

RoundInit == ReaderIdle /\ WriterIdle

\* the session constructs a Request
ConstructRequest ==
    /\ Construct
    /\ sobj' \in RequestInstances

\* what send wrote on the socket reaches the peer's recv, which is called
Deliver ==
    /\ spc = "sent"
    /\ ncalls = 0
    /\ FramesOn(sock) # {}
    /\ frames' \in {<<f>> : f \in FramesOn(sock)}
    /\ avail' = Len(sock)
    /\ ncalls' = 1
    /\ UNCHANGED <<pos, pc, cread_line, headers, hmap, content_size, data, raw,
                   result, zreads, chunks, svars, sock, wvars>>

RoundHeaderRecv == ncalls > 0 /\ HeaderRecv

RoundNext ==
    ConstructRequest \/ SetSeq \/ Send \/ Deliver \/ RoundHeaderRecv \/ BodyRecv

SpecRound == RoundInit /\ [][RoundNext]_vars

\* ------------------------------------------------- the frame being read
\* the wire format of a header line: Name, the first colon, Value
HasColon(line) == \E i \in 1..Len(line) : line[i] = ":"
FirstColon(line) == CHOOSE i \in 1..Len(line) :
                        line[i] = ":" /\ \A j \in 1..(i - 1) : line[j] # ":"
ColonCount(line) == Cardinality({i \in 1..Len(line) : line[i] = ":"})
NameOf(line) == Strip(SubSeq(line, 1, FirstColon(line) - 1))
ValueOf(line) == Strip(SubSeq(line, FirstColon(line) + 1, Len(line)))

\* name -> value of a header block, the last line of a name winning
HeaderBlock(lines) ==
    [n \in {NameOf(lines[i]) : i \in 1..Len(lines)} |->
        LET last == CHOOSE i \in 1..Len(lines) :
                        /\ NameOf(lines[i]) = n
                        /\ \A j \in (i + 1)..Len(lines) : NameOf(lines[j]) # n
        IN JStr(ValueOf(lines[last]))]

\* the frame the current call reads, and where it ends in the stream
CurFrame == frames[ncalls]
FrameEnd(k) == Len(WireAll(SubSeq(frames, 1, k)))
BodyStart(k) == FrameEnd(k) - Len(frames[k].body)
HasFrame == ncalls <= Len(frames)

\* Content-Length is given as a non-negative integer
LengthGiven(f) ==
    /\ \A i \in 1..Len(f.headers) : HasColon(f.headers[i])
    /\ ContentLengthName \in DOMAIN HeaderBlock(f.headers)
    /\ AllDigits(HeaderBlock(f.headers)[ContentLengthName][2])

\* header lines of the form Name: Value, Content-Length = the body's length,
\* the body a JSON document
WellFormed(f) ==
    /\ LengthGiven(f)
    /\ \A i \in 1..Len(f.headers) : ColonCount(f.headers[i]) = 1
    /\ NatOf(HeaderBlock(f.headers)[ContentLengthName][2], 0) = Len(f.body)
    /\ \E v \in JsonDocs : json_dumps(v) = Strip(f.body)

DocOf(f) == CHOOSE v \in JsonDocs : json_dumps(v) = Strip(f.body)

\* ---------------------------------------------------------------- claims

\* C1: when the stream closes after the header block and after at least one
\* but fewer than Content-Length body bytes were received, the call ends and
\* returns None (EndOfStream).
C1_TruncatedBodyEndsStream ==
    [][(pc = "body" /\ pos = avail /\ data # <<>>)
        => (pc' = "done" /\ raw' = Returned(None) /\ result' = Returned(None))]_vars

C3_HeaderEndOfStream ==
    [][(pc = "header" /\ pos = avail)
        => /\ pc' = "done"
           /\ raw' = Returned(None) /\ result' = Returned(None)
           /\ hmap' = Pending /\ content_size' = Pending
           /\ data' = <<>> /\ chunks' = 0]_vars

C3_Witness ==
    /\ pc = "done" /\ zreads = 1 /\ hmap = Pending
    /\ cread_line # <<>> /\ ~EndsWithCRLF(cread_line)
    /\ result = Returned(None)

\* C4: a complete header block without a Content-Length that is a
\* non-negative integer ends the call in an error that is not the None
\* result, raised before a body byte is read and before JSON decoding.
C4_MalformedLength ==
    (hmap # Pending /\ HasFrame /\ ~LengthGiven(CurFrame))
        => /\ pc = "done"
           /\ IsRaise(raw) /\ raw[3] \in {"parse_headers", "int"}
           /\ IsRaise(result)
           /\ data = <<>> /\ pos = BodyStart(ncalls)

\* C5: parse_headers splits each line at its first colon only: a block whose
\* lines all have a colon is accepted and maps each trimmed name to the
\* trimmed remainder; a line without a colon is an error.
C5_FirstColonSplit ==
    (hmap # Pending /\ HasFrame)
        => IF \A i \in 1..Len(CurFrame.headers) : HasColon(CurFrame.headers[i])
           THEN hmap = Returned(HeaderBlock(CurFrame.headers))
           ELSE IsRaise(hmap)

\* the commands with a typed variant (spec 4.4)
SupportedCommands ==
    {"runInTerminal", "setBreakpoints", "setFunctionBreakpoints", "continue",
     "next", "step", "stepOut", "pause", "initialize", "stackTrace", "scopes",
     "variables", "setVariable", "source", "threads", "evaluate"}

WireArgumentsOf(body) ==
    IF "arguments" \in DOMAIN body THEN body["arguments"] ELSE JMap(EmptyMap)

\* C9: decoding a well-formed request with an unsupported command never
\* fails and gives a DAPRequest with the wire command and the wire arguments
\* verbatim (an empty mapping when the wire has none).
C9_PassthroughVerbatim ==
    (pc = "done" /\ IsReturn(raw) /\ raw[2] # None
        /\ "command" \in DOMAIN raw[2][2]
        /\ raw[2][2]["command"][2] \notin SupportedCommands)
        => /\ IsReturn(result)
           /\ result[2][2] = "DAPRequest"
           /\ result[2][3]["command"] = raw[2][2]["command"]
           /\ result[2][3]["kwargs"] = WireArgumentsOf(raw[2][2])

\* --------------------------------------------------- serialization claims
IsResponseObj(o) == o # None /\ o[2] \in ResponseClasses
IsEventObj(o) == o # None /\ o[2] \in EventClasses

\* C6: the serialized map of a Response with a message holds the boolean
\* success under "success" and the message string under a separate key
\* "message".
C6_MessageBesideSuccess ==
    (IsResponseObj(sobj) /\ IsReturn(smsg) /\ sobj[3].message # None)
        => /\ smsg[2]["success"] = sobj[3].success
           /\ "message" \in DOMAIN smsg[2]
           /\ smsg[2]["message"] = sobj[3].message

\* the attribute a serialized key is taken from
AttrOfKey ==
    [reason |-> "reason", description |-> "description", threadId |-> "thread_id",
     preserveFocusHint |-> "preserve_focus_hint", text |-> "text",
     allThreadsStopped |-> "all_threads_stopped",
     allThreadsContinued |-> "all_threads_continue", exitCode |-> "ec",
     restart |-> "restart", category |-> "category", output |-> "output",
     variablesReference |-> "variables_reference", source |-> "source",
     line |-> "line", column |-> "column", data |-> "data",
     breakpoint |-> "breakpoint", module |-> "module", name |-> "name",
     systemProcessId |-> "process_id", isLocalProcess |-> "is_local",
     startMethod |-> "start_method", capabilities |-> "capabilities",
     processId |-> "process_id", shellProcessId |-> "shell_process_id",
     breakpoints |-> "breakpoints", stackFrames |-> "stack_frames",
     scopes |-> "scopes", variables |-> "variables", value |-> "value",
     type |-> "type", namedVariables |-> "named_variables",
     indexedVariables |-> "indexed_variables", mimeType |-> "mime_type",
     threads |-> "threads", error |-> "dm"]

NoNullIn(d) == \A k \in DOMAIN d : d[k] # None

\* every key of the body that is taken from an attribute carries that
\* attribute's value, and the attribute is set
BodyKeysSet(o, body) ==
    \A k \in (DOMAIN body) \cap (DOMAIN AttrOfKey) :
        AttrOfKey[k] \in DOMAIN o[3]
            => (o[3][AttrOfKey[k]] # None /\ body[k] = o[3][AttrOfKey[k]])

StoppedExample ==
    DAPStoppedEvent(JStr("breakpoint"), None, JInt(1), None, None, None)

\* C7: the serialized map of a Response or Event has no key whose in-memory
\* value is unset and no null value, at the top level and in the body; the
\* stopped event with only reason and thread id has body {reason, threadId}.
C7_NoUnsetKeys ==
    ((IsResponseObj(sobj) \/ IsEventObj(sobj)) /\ IsReturn(smsg))
        => /\ NoNullIn(smsg[2])
           /\ ("message" \in DOMAIN smsg[2] => sobj[3].message # None)
           /\ ("body" \in DOMAIN smsg[2] /\ sobj[2] # "DAPInitializeResponse")
                => /\ NoNullIn(smsg[2]["body"][2])
                   /\ BodyKeysSet(sobj, smsg[2]["body"][2])
           /\ (sobj = StoppedExample \/ sobj = set_seq(StoppedExample, JInt(1)))
                => smsg[2]["body"] =
                       JMap([reason |-> JStr("breakpoint"), threadId |-> JInt(1)])

C7_Witness ==
    /\ sobj = StoppedExample
    /\ spc = "serialized"
    /\ IsReturn(smsg)
    /\ DOMAIN smsg[2]["body"][2] = {"reason", "threadId"}

\* C8: serialize, and send once a seq is set, complete with a wire text for
\* every Event and Response variant the session constructs.
C8_SerializeTotal ==
    ((IsResponseObj(sobj) \/ IsEventObj(sobj)) /\ spc \in {"serialized", "sent"}
        /\ (spc = "sent" => HasAttr(sobj, "seq")))
        => IsReturn(sout)

\* --------------------------------------------------------- framing claims
FrameText(t) == WireOf(Frame(<<LengthLine(Len(t))>>, t))

IsPrefix(p, w) == Len(p) <= Len(w) /\ p = SubSeq(w, 1, Len(p))

\* b is a concatenation of whole frames, followed at most by the beginning
\* of one more frame
RECURSIVE WholeFrames(_)
WholeFrames(b) ==
    \/ b = <<>>
    \/ \E t \in SendTexts :
          LET w == FrameText(t)
          IN \/ IsPrefix(b, w)
             \/ /\ IsPrefix(w, b)
                /\ WholeFrames(SubSeq(b, Len(w) + 1, Len(b)))

IsRequestObj(o) == o # None /\ o[2] = "DAPRequest"

\* the wire discriminator of a message kind (spec 3)
WireTypeOf(o) ==
    IF IsRequestObj(o) THEN "request"
    ELSE IF IsResponseObj(o) THEN "response"
    ELSE "event"

\* C11: every serialized message has the keys seq and type, and type is
\* "request" for a Request, "response" for a Response and "event" for an
\* Event.
C11_TypeDiscriminator ==
    (sobj # None /\ IsReturn(smsg))
        => /\ {"seq", "type"} \subseteq DOMAIN smsg[2]
           /\ smsg[2]["type"] = JStr(WireTypeOf(sobj))

\* --------------------------------------------------------- round trip claim
\* C12: a Request that is serialized, framed by send_text and decoded by
\* recv comes back as a Request with the same seq, the same command and the
\* same arguments.
C12_RequestRoundTrip ==
    (ncalls = 1 /\ pc = "done")
        => /\ IsReturn(result)
           /\ result[2] # None
           /\ result[2][2] = "DAPRequest"
           /\ result[2][3]["seq"] = sobj[3]["seq"]
           /\ result[2][3]["command"] = sobj[3]["command"]
           /\ result[2][3]["kwargs"] = sobj[3]["kwargs"]

\* ------------------------------------------------------ frame by frame claim
FramesSoFarWellFormed == \A k \in 1..ncalls : WellFormed(frames[k])

====
